---- MODULE Spec2Model ----
(***************************************************************************)
(* Model of the RAG cost calculator: the word/token unit converter, the    *)
(* cost calculator (calculateCosts) and its backcheck (performBackcheck).  *)
(*                                                                         *)
(* JavaScript numbers are modelled as exact decimal rationals              *)
(* (n / d) * 10^e together with the IEEE-754 special values Infinity,      *)
(* -Infinity and NaN.  A finite result whose decimal exponent exceeds that *)
(* of Number.MAX_VALUE (1.797e308) overflows to +/-Infinity, as it does in  *)
(* a double.  The binary rounding of the last bits of a double is not      *)
(* modelled; the negative zero is identified with zero.                    *)
(***************************************************************************)
EXTENDS Integers, Sequences, FiniteSets, TLC

VARIABLES
    input,      \* the configuration given to calculateCosts
    result,     \* the value calculateCosts returned
    op,         \* the converter called
    arg,        \* its argument
    ret,        \* the value it returned
    call,       \* the arguments of a call of performBackcheck
    report,     \* the value performBackcheck returned
    log,        \* the calls of calculateCosts so far, oldest first
    hash,       \* window.location.hash
    saved,      \* the data of the saveState call that wrote the fragment
    loaded,     \* the value loadState returned
    generated,  \* the calls of generateRandomText so far, oldest first
    content,    \* the arguments and the value of a generateConversation call
    settings,   \* the eight settings of the page (the refs of App.vue)
    pending,    \* the watcher's callback is queued
    mounted,    \* onMounted has run
    events      \* the clicks, edits and reloads so far

vars == <<input, result, op, arg, ret, call, report, log, hash, saved, loaded, generated, content,
         settings, pending, mounted, events>>

\* the state of the calculator, the converter, the verifier and the URL
calcVars == <<input, result>>
convVars == <<op, arg, ret>>
checkVars == <<call, report>>
urlVars == <<hash, saved, loaded>>
textVars == <<generated, content>>
appVars == <<settings, pending, mounted, events>>

----------------------------------------------------------------------------
(* JavaScript numbers *)

NaN == [k |-> "nan", n |-> 0, d |-> 1, e |-> 0]

PosInf == [k |-> "inf", n |-> 1, d |-> 1, e |-> 0]

NegInf == [k |-> "inf", n |-> -1, d |-> 1, e |-> 0]

Zero == [k |-> "fin", n |-> 0, d |-> 1, e |-> 0]

IsNaN(a) == a.k = "nan"

IsInf(a) == a.k = "inf"

IsFinite(a) == a.k = "fin"

IAbs(i) == IF i < 0 THEN -i ELSE i

ISign(i) == IF i < 0 THEN -1 ELSE IF i > 0 THEN 1 ELSE 0

RECURSIVE Gcd(_, _)
Gcd(a, b) == IF b = 0 THEN a ELSE Gcd(b, a % b)

RECURSIVE Pow10(_)
Pow10(k) == IF k <= 0 THEN 1 ELSE 10 * Pow10(k - 1)

\* number of decimal digits of a positive integer
RECURSIVE Digits(_)
Digits(i) == IF i < 10 THEN 1 ELSE 1 + Digits(i \div 10)

\* least k with n * 10^k >= d, for 0 < n < d
RECURSIVE Up10(_, _)
Up10(n, d) == IF n >= d THEN 0 ELSE 1 + Up10(n * 10, d)

\* floor(log10(n / d)) for n, d > 0
Log10Floor(n, d) == IF n >= d THEN Digits(n \div d) - 1 ELSE -Up10(n, d)

\* decimal exponent of a finite non-zero number
DecExp(a) == a.e + Log10Floor(IAbs(a.n), a.d)

\* the factors 2 and 5 of the denominator and the factors 10 of the
\* numerator go to the exponent, so that equal values have equal records
RECURSIVE Strip(_, _, _)
Strip(n, d, e) ==
    IF d % 2 = 0 THEN Strip(n * 5, d \div 2, e - 1)
    ELSE IF d % 5 = 0 THEN Strip(n * 2, d \div 5, e - 1)
    ELSE IF n % 10 = 0 THEN Strip(n \div 10, d, e + 1)
    ELSE [k |-> "fin", n |-> n, d |-> d, e |-> e]

\* the double that holds (n / d) * 10^e: +/-Infinity above Number.MAX_VALUE
\* (1.797e308), zero below Number.MIN_VALUE (4.9e-324)
Norm(n, d, e) ==
    IF n = 0 THEN Zero
    ELSE LET s == IF d < 0 THEN -1 ELSE 1
             g == Gcd(IAbs(n), IAbs(d))
             r == Strip((s * n) \div g, (s * d) \div g, e)
         IN  IF DecExp(r) >= 309 THEN (IF r.n > 0 THEN PosInf ELSE NegInf)
             ELSE IF DecExp(r) < -324 THEN Zero
             ELSE r

Num(i) == Norm(i, 1, 0)

Dec(n, e) == Norm(n, 1, e)

NumSign(a) == IF IsNaN(a) THEN 0 ELSE ISign(a.n)

NumNeg(a) == IF IsNaN(a) THEN NaN ELSE [a EXCEPT !.n = -a.n]

NumAbs(a) == IF IsNaN(a) THEN NaN ELSE [a EXCEPT !.n = IAbs(a.n)]

\* a * b
NumMul(a, b) ==
    IF IsNaN(a) \/ IsNaN(b) THEN NaN
    ELSE IF IsInf(a) \/ IsInf(b)
         THEN (IF a.n = 0 \/ b.n = 0 THEN NaN
               ELSE IF ISign(a.n) = ISign(b.n) THEN PosInf ELSE NegInf)
    ELSE LET g1 == Gcd(IAbs(a.n), b.d)
             g2 == Gcd(IAbs(b.n), a.d)
         IN  Norm((a.n \div g1) * (b.n \div g2),
                  (a.d \div g2) * (b.d \div g1), a.e + b.e)

\* a / b
NumDiv(a, b) ==
    IF IsNaN(a) \/ IsNaN(b) THEN NaN
    ELSE IF IsInf(a) THEN (IF IsInf(b) THEN NaN
                           ELSE IF b.n < 0 THEN NumNeg(a) ELSE a)
    ELSE IF IsInf(b) THEN Zero
    ELSE IF b.n = 0 THEN (IF a.n = 0 THEN NaN
                          ELSE IF a.n > 0 THEN PosInf ELSE NegInf)
    ELSE NumMul(a, [k |-> "fin", n |-> ISign(b.n) * b.d,
                    d |-> IAbs(b.n), e |-> -b.e])

\* a + b; an addend more than 17 decimal orders below the other is absorbed
\* by the rounding of the sum
NumAdd(a, b) ==
    IF IsNaN(a) \/ IsNaN(b) THEN NaN
    ELSE IF IsInf(a) THEN (IF IsInf(b) /\ a.n # b.n THEN NaN ELSE a)
    ELSE IF IsInf(b) THEN b
    ELSE IF a.n = 0 THEN b
    ELSE IF b.n = 0 THEN a
    ELSE IF DecExp(a) - DecExp(b) > 17 THEN a
    ELSE IF DecExp(b) - DecExp(a) > 17 THEN b
    ELSE LET m == IF a.e < b.e THEN a.e ELSE b.e
             an == a.n * Pow10(a.e - m)
             bn == b.n * Pow10(b.e - m)
         IN  Norm(an * b.d + bn * a.d, a.d * b.d, m)

NumSub(a, b) == NumAdd(a, NumNeg(b))

\* a < b, false when either is NaN
NumLt(a, b) ==
    IF IsNaN(a) \/ IsNaN(b) THEN FALSE
    ELSE IF a = b THEN FALSE
    ELSE IF IsInf(a) THEN a.n < 0
    ELSE IF IsInf(b) THEN b.n > 0
    ELSE IF ISign(a.n) # ISign(b.n) THEN ISign(a.n) < ISign(b.n)
    ELSE IF DecExp(a) # DecExp(b)
         THEN (IF a.n > 0 THEN DecExp(a) < DecExp(b) ELSE DecExp(a) > DecExp(b))
    ELSE NumSign(NumSub(a, b)) < 0

NumLe(a, b) == NumLt(a, b) \/ (~IsNaN(a) /\ a = b)

NumGt(a, b) == NumLt(b, a)

\* a === b
NumEq(a, b) == ~IsNaN(a) /\ ~IsNaN(b) /\ a = b

\* Math.ceil; a double of 16 or more integer digits is an integer
NumCeil(a) ==
    IF ~IsFinite(a) \/ a.n = 0 THEN a
    ELSE IF a.e >= 16 THEN a
    ELSE IF a.e >= 0 THEN Num(-((-(a.n * Pow10(a.e))) \div a.d))
    ELSE Num(-((-a.n) \div (a.d * Pow10(-a.e))))

\* Math.floor
NumFloor(a) == NumNeg(NumCeil(NumNeg(a)))

\* Math.round: the nearest integer, halves toward +Infinity
NumRound(a) ==
    IF ~IsFinite(a) \/ a.e >= 16 THEN a ELSE NumFloor(NumAdd(a, Dec(5, -1)))

----------------------------------------------------------------------------
(* Unit converter *)

\* Word to token conversion ratio, 1.33
WORDS_TO_TOKENS_RATIO == Dec(133, -2)

\* Math.floor for Math.ceil
wordsToTokens_floor(words) ==
    IF NumLe(words, Zero) THEN Zero
    ELSE NumFloor(NumMul(words, WORDS_TO_TOKENS_RATIO))

wordsToTokens(words) ==
    IF NumLe(words, Zero) THEN Zero
    ELSE NumCeil(NumMul(words, WORDS_TO_TOKENS_RATIO))

\* the ratio multiplied for divided
tokensToWords_multiply(tokens) ==
    IF NumLe(tokens, Zero) THEN Zero
    ELSE NumCeil(NumMul(tokens, WORDS_TO_TOKENS_RATIO))

\* the quotient rounded down
tokensToWords_floor(tokens) ==
    IF NumLe(tokens, Zero) THEN Zero
    ELSE NumFloor(NumDiv(tokens, WORDS_TO_TOKENS_RATIO))

tokensToWords(tokens) ==
    IF NumLe(tokens, Zero) THEN Zero
    ELSE NumCeil(NumDiv(tokens, WORDS_TO_TOKENS_RATIO))

----------------------------------------------------------------------------
(* Price table *)

OPENAI_MODELS ==
    [id \in {"gpt-4o"} |->
        [name |-> "GPT-40", inputPrice |-> Dec(25, -4), outputPrice |-> Dec(1, -2)]]

\* the value of a lookup that misses
Undefined == [undefined |-> TRUE]

\* OPENAI_MODELS[input.selectedModel]
LookupModel(id) ==
    IF id \in DOMAIN OPENAI_MODELS THEN OPENAI_MODELS[id] ELSE Undefined

\* the default of a missing price left out: undefined, NaN in a product
InputPriceOf_noDefault(model) == IF model = Undefined THEN NaN ELSE model.inputPrice

\* model?.inputPrice ?? 0
InputPriceOf(model) == IF model = Undefined THEN Zero ELSE model.inputPrice

\* model?.outputPrice ?? 0
OutputPriceOf(model) == IF model = Undefined THEN Zero ELSE model.outputPrice

----------------------------------------------------------------------------
(* Backcheck verifier *)

\* the tolerance of the match predicates, 0.0001
Tolerance == Dec(1, -4)

ExpectedTotalMessages(in) ==
    NumMul(NumMul(in.dailyUsers, in.conversationsPerUser),
           in.messagesPerConversation)

\* the costs divided by 100 for 1000
ExpectedDailyCost_per100(expectedTotalMessages, model, totalInputTokens, outputTokens) ==
    NumAdd(
        NumDiv(NumMul(NumMul(totalInputTokens, expectedTotalMessages),
                      InputPriceOf(model)), Num(100)),
        NumDiv(NumMul(NumMul(outputTokens, expectedTotalMessages),
                      OutputPriceOf(model)), Num(100)))

ExpectedDailyCost(expectedTotalMessages, model, totalInputTokens, outputTokens) ==
    NumAdd(
        NumDiv(NumMul(NumMul(totalInputTokens, expectedTotalMessages),
                      InputPriceOf(model)), Num(1000)),
        NumDiv(NumMul(NumMul(outputTokens, expectedTotalMessages),
                      OutputPriceOf(model)), Num(1000)))

\* the tolerance included: <= for <
Matches_inclusive(expected, actual) == NumLe(NumAbs(NumSub(expected, actual)), Tolerance)

\* Math.abs(expected - actual) < 0.0001
Matches(expected, actual) == NumLt(NumAbs(NumSub(expected, actual)), Tolerance)

\* the object performBackcheck returns
BackcheckReport(totalInputTokens, outputTokens, expectedTotalMessages, expectedDailyCost, actualTotalMessages, actualDailyCost, totalMessagesMatch, dailyCostMatch, inputTokensMatch, outputTokensMatch) ==
    [isValid |-> totalMessagesMatch /\ dailyCostMatch
                 /\ inputTokensMatch /\ outputTokensMatch,
     details |->
        [inputTokensMatch |-> inputTokensMatch,
         outputTokensMatch |-> outputTokensMatch,
         totalMessagesMatch |-> totalMessagesMatch,
         dailyCostMatch |-> dailyCostMatch,
         expectedValues |->
            [inputTokens |-> totalInputTokens,
             outputTokens |-> outputTokens,
             totalMessages |-> expectedTotalMessages,
             dailyCost |-> expectedDailyCost],
         actualValues |->
            [inputTokens |-> totalInputTokens,
             outputTokens |-> outputTokens,
             totalMessages |-> actualTotalMessages,
             dailyCost |-> actualDailyCost]]]

\* the comparison of the expected with the actual values
CompareValues(totalInputTokens, outputTokens, expectedTotalMessages, expectedDailyCost, actualTotalMessages, actualDailyCost) ==
    BackcheckReport(totalInputTokens, outputTokens,
                    expectedTotalMessages, expectedDailyCost,
                    actualTotalMessages, actualDailyCost,
                    Matches(expectedTotalMessages, actualTotalMessages),
                    Matches(expectedDailyCost, actualDailyCost),
                    TRUE, TRUE)

\* the input tokens compared with those of the result, not taken as given
performBackcheck_checksTokens(in, res, model, totalInputTokens, outputTokens) ==
    BackcheckReport(totalInputTokens, outputTokens,
                    ExpectedTotalMessages(in),
                    ExpectedDailyCost(ExpectedTotalMessages(in), model,
                                      totalInputTokens, outputTokens),
                    res.totalDailyMessages, res.dailyCost,
                    Matches(ExpectedTotalMessages(in), res.totalDailyMessages),
                    Matches(ExpectedDailyCost(ExpectedTotalMessages(in), model,
                                              totalInputTokens, outputTokens),
                            res.dailyCost),
                    Matches(NumAdd(totalInputTokens, outputTokens),
                            res.tokensPerMessage),
                    TRUE)

performBackcheck(in, res, model, totalInputTokens, outputTokens) ==
    CompareValues(totalInputTokens, outputTokens,
                  ExpectedTotalMessages(in),
                  ExpectedDailyCost(ExpectedTotalMessages(in), model,
                                    totalInputTokens, outputTokens),
                  res.totalDailyMessages, res.dailyCost)

----------------------------------------------------------------------------
(* Cost calculator *)

\* the test of messagesPerConversation left out
IsDegenerate_twoFields(in) ==
    \/ NumEq(in.dailyUsers, Zero)
    \/ NumEq(in.conversationsPerUser, Zero)

\* the early return taken for every count that is not positive
IsDegenerate_nonPositive(in) ==
    \/ NumLe(in.dailyUsers, Zero)
    \/ NumLe(in.conversationsPerUser, Zero)
    \/ NumLe(in.messagesPerConversation, Zero)

\* the early return when an essential value is === 0
IsDegenerate(in) ==
    \/ NumEq(in.dailyUsers, Zero)
    \/ NumEq(in.conversationsPerUser, Zero)
    \/ NumEq(in.messagesPerConversation, Zero)

\* the backcheck of the two literal results: every flag `flag`, every value 0
LiteralBackcheck(flag) ==
    [isValid |-> flag,
     details |->
        [inputTokensMatch |-> flag,
         outputTokensMatch |-> flag,
         totalMessagesMatch |-> flag,
         dailyCostMatch |-> flag,
         expectedValues |->
            [inputTokens |-> Zero, outputTokens |-> Zero,
             totalMessages |-> Zero, dailyCost |-> Zero],
         actualValues |->
            [inputTokens |-> Zero, outputTokens |-> Zero,
             totalMessages |-> Zero, dailyCost |-> Zero]]]

LiteralResult(flag) ==
    [tokensPerMessage |-> Zero,
     wordsPerMessage |-> Zero,
     totalDailyMessages |-> Zero,
     dailyCost |-> Zero,
     monthlyCost |-> Zero,
     annualCost |-> Zero,
     costPerMessage |-> Zero,
     costPerUser |-> Zero,
     averageHistoryTokens |-> Zero,
     backcheck |-> LiteralBackcheck(flag)]

\* the result of the early return
ZeroGuardResult == LiteralResult(TRUE)

\* the literal of the early return pasted into the catch block
FaultResult_valid == LiteralResult(TRUE)

\* the result of the catch block
FaultResult == LiteralResult(FALSE)

\* ToLength of the length property given to Array.from
ToLength(len) ==
    IF IsNaN(len) \/ NumLe(len, Zero) THEN Zero
    ELSE IF IsInf(len) THEN len
    ELSE NumFloor(len)

\* Array.from({length}) raises a RangeError above 2^32 - 1 elements:
\* an integer is at least 2^32 iff its quarter is at least 2^30
ArrayFromThrows(len) ==
    NumLe(Num(1073741824), NumDiv(ToLength(len), Num(4)))

\* the integer a small integral number holds
ToInt(a) == a.n * Pow10(a.e)

\* the message itself counted with its history
getHistoryTokensForMessage_offByOne(messageIndex, queryTokens, outputTokens) ==
    NumMul(Num(messageIndex + 1), NumAdd(queryTokens, outputTokens))

\* no history carried by any message
getHistoryTokensForMessage_none(messageIndex, queryTokens, outputTokens) == Zero

\* For message N, N-1 previous exchanges (query + response) are included
getHistoryTokensForMessage(messageIndex, queryTokens, outputTokens) ==
    IF messageIndex = 0 THEN Zero
    ELSE NumMul(Num(messageIndex), NumAdd(queryTokens, outputTokens))

\* the reduce over the indices 0 .. length-1, here over the first `count`
RECURSIVE SumHistory(_, _, _)
SumHistory(count, queryTokens, outputTokens) ==
    IF count <= 0 THEN Zero
    ELSE NumAdd(SumHistory(count - 1, queryTokens, outputTokens),
                getHistoryTokensForMessage(count - 1, queryTokens, outputTokens))

TotalHistoryTokens(in, queryTokens, outputTokens) ==
    SumHistory(ToInt(ToLength(in.messagesPerConversation)),
               queryTokens, outputTokens)

\* the average cut to an integer before it is summed
AverageHistoryTokens_floored(in, queryTokens, outputTokens) ==
    NumFloor(NumDiv(TotalHistoryTokens(in, queryTokens, outputTokens),
                    in.messagesPerConversation))

AverageHistoryTokens(in, queryTokens, outputTokens) ==
    NumDiv(TotalHistoryTokens(in, queryTokens, outputTokens),
           in.messagesPerConversation)

\* the reported, rounded average summed for the unrounded one
TotalInputTokens_roundedHistory(chunksPerQuery, chunkTokens, queryTokens, averageHistoryTokens) ==
    NumAdd(NumAdd(NumMul(chunksPerQuery, chunkTokens), queryTokens),
           NumRound(averageHistoryTokens))

TotalInputTokens(chunksPerQuery, chunkTokens, queryTokens, averageHistoryTokens) ==
    NumAdd(NumAdd(NumMul(chunksPerQuery, chunkTokens), queryTokens),
           averageHistoryTokens)

\* the factor messagesPerConversation left out
TotalDailyMessages_perConversation(in) ==
    NumMul(in.dailyUsers, in.conversationsPerUser)

\* the factor dailyUsers left out
TotalDailyMessages_perUser(in) ==
    NumMul(in.conversationsPerUser, in.messagesPerConversation)

TotalDailyMessages(in) ==
    NumMul(NumMul(in.dailyUsers, in.conversationsPerUser),
           in.messagesPerConversation)

\* the price taken per token, not per 1000 tokens
DailyInputCost_perToken(totalInputTokens, totalDailyMessages, model) ==
    NumMul(NumMul(totalInputTokens, totalDailyMessages), InputPriceOf(model))

DailyInputCost(totalInputTokens, totalDailyMessages, model) ==
    NumMul(NumDiv(NumMul(totalInputTokens, totalDailyMessages), Num(1000)),
           InputPriceOf(model))

DailyOutputCost(outputTokens, totalDailyMessages, model) ==
    NumMul(NumDiv(NumMul(outputTokens, totalDailyMessages), Num(1000)),
           OutputPriceOf(model))

DailyCost(totalInputTokens, outputTokens, totalDailyMessages, model) ==
    NumAdd(DailyInputCost(totalInputTokens, totalDailyMessages, model),
           DailyOutputCost(outputTokens, totalDailyMessages, model))

MonthlyCost(dailyCost) == NumMul(dailyCost, Num(30))

\* twelve months of thirty days
AnnualCost_twelveMonths(dailyCost) == NumMul(NumMul(dailyCost, Num(30)), Num(12))

AnnualCost(dailyCost) == NumMul(dailyCost, Num(365))

\* the monthly cost divided by the messages of one day
CostPerMessage_perDay(monthlyCost, totalDailyMessages) ==
    IF NumGt(totalDailyMessages, Zero)
    THEN NumDiv(monthlyCost, totalDailyMessages)
    ELSE Zero

\* the guard set at one message, not at zero
CostPerMessage_guardAtOne(monthlyCost, totalDailyMessages) ==
    IF NumGt(totalDailyMessages, Num(1))
    THEN NumDiv(monthlyCost, NumMul(totalDailyMessages, Num(30)))
    ELSE Zero

CostPerMessage(monthlyCost, totalDailyMessages) ==
    IF NumGt(totalDailyMessages, Zero)
    THEN NumDiv(monthlyCost, NumMul(totalDailyMessages, Num(30)))
    ELSE Zero

\* the daily cost of a user: the monthly cost divided by 30 once more
CostPerUser_perDay(monthlyCost, dailyUsers) ==
    IF NumGt(dailyUsers, Zero)
    THEN NumDiv(NumDiv(monthlyCost, dailyUsers), Num(30))
    ELSE Zero

CostPerUser(monthlyCost, dailyUsers) ==
    IF NumGt(dailyUsers, Zero) THEN NumDiv(monthlyCost, dailyUsers) ELSE Zero

\* the object `result` and the value returned: result with its backcheck
WithResult(in, model, totalInputTokens, outputTokens, res) ==
    [tokensPerMessage |-> res.tokensPerMessage,
     wordsPerMessage |-> res.wordsPerMessage,
     totalDailyMessages |-> res.totalDailyMessages,
     dailyCost |-> res.dailyCost,
     monthlyCost |-> res.monthlyCost,
     annualCost |-> res.annualCost,
     costPerMessage |-> res.costPerMessage,
     costPerUser |-> res.costPerUser,
     averageHistoryTokens |-> res.averageHistoryTokens,
     backcheck |->
        performBackcheck(in, res, model, totalInputTokens, outputTokens)]

\* from monthlyCost on: annualCost, costPerMessage, costPerUser, result
WithMonthlyCost(in, model, averageHistoryTokens, totalInputTokens, outputTokens, totalDailyMessages, dailyCost, monthlyCost) ==
    WithResult(in, model, totalInputTokens, outputTokens,
        [tokensPerMessage |-> NumAdd(totalInputTokens, outputTokens),
         wordsPerMessage |-> tokensToWords(NumAdd(totalInputTokens, outputTokens)),
         totalDailyMessages |-> totalDailyMessages,
         dailyCost |-> dailyCost,
         monthlyCost |-> monthlyCost,
         annualCost |-> AnnualCost(dailyCost),
         costPerMessage |-> CostPerMessage(monthlyCost, totalDailyMessages),
         costPerUser |-> CostPerUser(monthlyCost, in.dailyUsers),
         averageHistoryTokens |-> NumRound(averageHistoryTokens)])

\* from dailyCost on
WithDailyCost(in, model, averageHistoryTokens, totalInputTokens, outputTokens, totalDailyMessages, dailyCost) ==
    WithMonthlyCost(in, model, averageHistoryTokens, totalInputTokens,
                    outputTokens, totalDailyMessages, dailyCost,
                    MonthlyCost(dailyCost))

\* from totalInputTokens and totalDailyMessages on
WithTotals(in, model, averageHistoryTokens, totalInputTokens, outputTokens, totalDailyMessages) ==
    WithDailyCost(in, model, averageHistoryTokens, totalInputTokens,
                  outputTokens, totalDailyMessages,
                  DailyCost(totalInputTokens, outputTokens, totalDailyMessages,
                            model))

\* from averageHistoryTokens on
WithHistory(in, model, chunkTokens, queryTokens, outputTokens, averageHistoryTokens) ==
    WithTotals(in, model, averageHistoryTokens,
               TotalInputTokens(in.chunksPerQuery, chunkTokens, queryTokens,
                                averageHistoryTokens),
               outputTokens, TotalDailyMessages(in))

\* from the token counts on
WithTokens(in, model, chunkTokens, queryTokens, outputTokens) ==
    WithHistory(in, model, chunkTokens, queryTokens, outputTokens,
                AverageHistoryTokens(in, queryTokens, outputTokens))

\* the body of the try block after the early return
NormalResult(in) ==
    WithTokens(in, LookupModel(in.selectedModel),
               wordsToTokens(in.wordsPerChunk),
               wordsToTokens(in.userQueryWords),
               wordsToTokens(in.responseWords))

\* a fault raised inside the try block: the RangeError of Array.from
Throws(in) == ~IsDegenerate(in) /\ ArrayFromThrows(in.messagesPerConversation)

\* the configuration of the previous call read for the one passed in
calculateCosts_previousConfiguration(in) ==
    IF result = [none |-> TRUE]
    THEN IF IsDegenerate(in) THEN ZeroGuardResult
         ELSE IF Throws(in) THEN FaultResult
         ELSE NormalResult(in)
    ELSE IF IsDegenerate(input) THEN ZeroGuardResult
         ELSE IF Throws(input) THEN FaultResult
         ELSE NormalResult(input)

calculateCosts(in) ==
    IF IsDegenerate(in) THEN ZeroGuardResult
    ELSE IF Throws(in) THEN FaultResult
    ELSE NormalResult(in)

----------------------------------------------------------------------------
(* The callers: one calculation request, one converter call *)

\* bounds of the usage counts drawn for a request
MaxUsers == 2

MaxConversations == 3

MaxMessages == 5

\* bound of the word and token counts given to the converter, in halves
MaxHalves == 280

\* a finite double whose square is above Number.MAX_VALUE
Huge == Dec(1, 200)

\* the configuration the application starts with
DefaultInput ==
    [selectedModel |-> "gpt-4o",
     dailyUsers |-> Num(100),
     conversationsPerUser |-> Num(3),
     messagesPerConversation |-> Num(5),
     wordsPerChunk |-> Num(200),
     userQueryWords |-> Num(18),
     responseWords |-> Num(60),
     chunksPerQuery |-> Num(2)]

ModelIds == {"gpt-4o", "non-existent-model"}

\* the values of the three usage counts: both signs, 0, a fraction, 1e200
UsageValues ==
    [dailyUsers |-> {Num(i) : i \in -1 .. MaxUsers} \cup {Num(100), Huge},
     conversationsPerUser |-> {Num(i) : i \in -1 .. MaxConversations} \cup {Huge},
     messagesPerConversation |->
        {Num(i) : i \in -1 .. MaxMessages} \cup {Norm(7, 2, 0), Huge}]

\* configurations without any text: every word count is 0
EmptyTextInputs ==
    [selectedModel : {"gpt-4o"},
     dailyUsers : {Num(1), Num(2)},
     conversationsPerUser : {Num(1), Num(2)},
     messagesPerConversation : {Num(1), Num(2)},
     wordsPerChunk : {Zero},
     userQueryWords : {Zero},
     responseWords : {Zero},
     chunksPerQuery : {Num(1)}]

\* configurations whose query and response tokens sum to an odd number (83)
OddExchangeInputs ==
    [selectedModel : {"gpt-4o"},
     dailyUsers : {Num(1)},
     conversationsPerUser : {Num(1)},
     messagesPerConversation : {Num(i) : i \in 1 .. MaxMessages},
     wordsPerChunk : {Num(200)},
     userQueryWords : {Num(2)},
     responseWords : {Num(60)},
     chunksPerQuery : {Num(1)}]

Inputs ==
    [selectedModel : ModelIds,
     dailyUsers : UsageValues.dailyUsers,
     conversationsPerUser : UsageValues.conversationsPerUser,
     messagesPerConversation : UsageValues.messagesPerConversation,
     wordsPerChunk : {Num(200)},
     userQueryWords : {Num(18)},
     responseWords : {Num(-5), Num(0), Num(60)},
     chunksPerQuery : {Num(1), Num(2)}]
    \cup EmptyTextInputs \cup OddExchangeInputs

\* the numbers given to the converter: halves, large counts, both signs
ConverterArgs ==
    {Norm(h, 2, 0) : h \in -4 .. MaxHalves}
        \cup {Num(1000), Num(1000000), Num(-1000000)}

\* no result yet
NoResult == [none |-> TRUE]

\* no call of performBackcheck, no call logged
NoCall == [none |-> TRUE]

\* the empty string
EmptyString == <<>>

\* no saveState wrote the fragment
NoData == [none |-> TRUE]

\* loadState not yet called
NotLoaded == [none |-> TRUE]

\* the converter, the verifier, the log and the URL before any use
ConverterIdle == op = "idle" /\ arg = Zero /\ ret = Zero
VerifierIdle == call = NoCall /\ report = NoResult
UrlIdle == hash = EmptyString /\ saved = NoData /\ loaded = NotLoaded

\* a JavaScript string
JsString(s) == [str |-> s]

\* the settings of the page as its refs are created
DefaultSettings ==
    [dailyUsers |-> Num(100), conversationsPerUser |-> Num(3),
     messagesPerConversation |-> Num(5), wordsPerChunk |-> Num(200),
     userQueryWords |-> Num(18), responseWords |-> Num(60),
     chunksPerQuery |-> Num(2), selectedModel |-> JsString("gpt-4o")]

\* the page as its script sets it up: the defaults, nothing queued
AppIdle ==
    /\ settings = DefaultSettings
    /\ pending = FALSE
    /\ mounted = FALSE
    /\ events = 0

\* generateConversation not yet called
NoContent == [none |-> TRUE]

TextIdle == generated = <<>> /\ content = NoContent

Init ==
    /\ input \in Inputs
    /\ result = NoResult
    /\ ConverterIdle
    /\ VerifierIdle
    /\ log = <<>>
    /\ UrlIdle
    /\ TextIdle
    /\ AppIdle

\* the caller runs calculateCosts on its configuration
Calculate ==
    /\ result = NoResult
    /\ result' = calculateCosts(input)
    /\ UNCHANGED <<input, convVars, checkVars, log, urlVars, textVars, appVars>>

Next == Calculate

Spec == Init /\ [][Next]_vars

InitConverter ==
    /\ input = DefaultInput
    /\ result = NoResult
    /\ op = "idle"
    /\ arg \in ConverterArgs
    /\ ret = Zero
    /\ VerifierIdle
    /\ log = <<>>
    /\ UrlIdle
    /\ TextIdle
    /\ AppIdle

CallWordsToTokens ==
    /\ op = "idle"
    /\ op' = "wordsToTokens"
    /\ ret' = wordsToTokens(arg)
    /\ UNCHANGED <<calcVars, arg, checkVars, log, urlVars, textVars, appVars>>

CallTokensToWords ==
    /\ op = "idle"
    /\ op' = "tokensToWords"
    /\ ret' = tokensToWords(arg)
    /\ UNCHANGED <<calcVars, arg, checkVars, log, urlVars, textVars, appVars>>

\* words converted to tokens and the tokens converted back
CallRoundTrip ==
    /\ op = "idle"
    /\ op' = "roundTrip"
    /\ ret' = tokensToWords(wordsToTokens(arg))
    /\ UNCHANGED <<calcVars, arg, checkVars, log, urlVars, textVars, appVars>>

NextConverter == CallWordsToTokens \/ CallTokensToWords \/ CallRoundTrip

SpecConverter == InitConverter /\ [][NextConverter]_vars

----------------------------------------------------------------------------
(* performBackcheck called on arbitrary arguments *)

\* differences around the tolerance 0.0001, on both sides
Deltas == {Zero, Dec(9, -5), Dec(-9, -5), Dec(1, -4), Dec(-1, -4), Num(1)}

\* result arguments: totals and costs at, near and off the recomputed ones
BackcheckResults ==
    [tokensPerMessage : {Zero, Num(844)},
     wordsPerMessage : {Zero},
     totalDailyMessages : {NumAdd(Num(t), dt) : t \in {15, 1500}, dt \in Deltas},
     dailyCost :
        {NumAdd(c, dc) : c \in {Zero, Dec(4065, -5), Dec(4065, -3), Dec(615, -2)},
                         dc \in Deltas} \cup {NaN, PosInf},
     monthlyCost : {Zero},
     annualCost : {Zero},
     costPerMessage : {Zero},
     costPerUser : {Zero},
     averageHistoryTokens : {Zero}]

BackcheckCalls ==
    [input : {[DefaultInput EXCEPT !.dailyUsers = u] : u \in {Num(1), Num(100)}},
     result : BackcheckResults,
     model : {OPENAI_MODELS["gpt-4o"], Undefined},
     totalInputTokens : {Num(764), Num(1320)},
     outputTokens : {Num(80)}]

InitBackcheck ==
    /\ input = DefaultInput
    /\ result = NoResult
    /\ ConverterIdle
    /\ call \in BackcheckCalls
    /\ report = NoResult
    /\ log = <<>>
    /\ UrlIdle
    /\ TextIdle
    /\ AppIdle

CallPerformBackcheck ==
    /\ report = NoResult
    /\ report' = performBackcheck(call.input, call.result, call.model,
                                  call.totalInputTokens, call.outputTokens)
    /\ UNCHANGED <<calcVars, convVars, call, log, urlVars, textVars, appVars>>

NextBackcheck == CallPerformBackcheck

SpecBackcheck == InitBackcheck /\ [][NextBackcheck]_vars

----------------------------------------------------------------------------
(* calculateCosts called again and again *)

MaxCalls == 3

\* the configurations of the repeated calls: the reference configuration,
\* one user, an unknown model, a zero count, a count Array.from rejects
CallInputs ==
    {DefaultInput,
     [DefaultInput EXCEPT !.dailyUsers = Num(1)],
     [DefaultInput EXCEPT !.selectedModel = "non-existent-model"],
     [DefaultInput EXCEPT !.messagesPerConversation = Zero],
     [DefaultInput EXCEPT !.messagesPerConversation = Huge]}

InitCalls ==
    /\ input = DefaultInput
    /\ result = NoResult
    /\ ConverterIdle
    /\ VerifierIdle
    /\ log = <<>>
    /\ UrlIdle
    /\ TextIdle
    /\ AppIdle

\* one more call, on any configuration; the log keeps what it was given
\* and what it returned
CalculateAgain ==
    /\ Len(log) < MaxCalls
    /\ \E c \in CallInputs :
          /\ input' = c
          /\ result' = calculateCosts(c)
          /\ log' = Append(log, [input |-> c, result |-> result'])
    /\ UNCHANGED <<convVars, checkVars, urlVars, textVars, appVars>>

NextCalls == CalculateAgain

SpecCalls == InitCalls /\ [][NextCalls]_vars

----------------------------------------------------------------------------
(* URL state: the settings kept in the fragment of the page's URL *)

\* JavaScript values besides numbers: null, strings; undefined is Undefined.
\* An object is a function from its property names to values.
Null == [null |-> TRUE]

IsNumber(v) == DOMAIN v = {"k", "n", "d", "e"}

IsString(v) == DOMAIN v = {"str"}

\* the order in which the properties of a settings object are written
KeyOrder ==
    <<"dailyUsers", "conversationsPerUser", "messagesPerConversation",
      "wordsPerChunk", "userQueryWords", "responseWords", "chunksPerQuery",
      "selectedModel">>

\* JSON texts: null, a number literal (digits and a decimal exponent), a
\* string literal, an object (its members in order); the empty text and a
\* text that is not JSON
NullText == [t |-> "null"]
EmptyText == [t |-> "empty"]
InvalidText == [t |-> "invalid"]

\* the JSON text of a value that is not an object: NaN and the infinities
\* are written as null
StringifyPrimitive(v) ==
    IF IsNumber(v)
    THEN IF IsFinite(v) THEN [t |-> "number", n |-> v.n, e |-> v.e]
         ELSE NullText
    ELSE IF IsString(v) THEN [t |-> "string", s |-> v.str]
    ELSE NullText

\* the names of the properties written: those whose value is not undefined
WrittenKeys(v) ==
    SelectSeq(KeyOrder, LAMBDA key : key \in DOMAIN v /\ v[key] # Undefined)

\* JSON.stringify(data): undefined for undefined
JsonStringify(data) ==
    IF data = Undefined THEN Undefined
    ELSE IF data = Null \/ IsNumber(data) \/ IsString(data)
    THEN StringifyPrimitive(data)
    ELSE [t |-> "object",
          members |->
            [i \in 1 .. Len(WrittenKeys(data)) |->
                [key |-> WrittenKeys(data)[i],
                 value |-> StringifyPrimitive(data[WrittenKeys(data)[i]])]]]

\* JSON.parse raises a SyntaxError on a text that is not JSON
ParseThrows(text) == text \in {EmptyText, InvalidText}

ParsePrimitive(text) ==
    IF text.t = "number" THEN Dec(text.n, text.e)
    ELSE IF text.t = "string" THEN JsString(text.s)
    ELSE Null

\* JSON.parse(text) of a text that is JSON
JsonParse(text) ==
    IF text.t = "object"
    THEN [key \in {text.members[i].key : i \in 1 .. Len(text.members)} |->
            ParsePrimitive(
                text.members[CHOOSE i \in 1 .. Len(text.members) :
                                text.members[i].key = key].value)]
    ELSE ParsePrimitive(text)

\* lz-string, taken as a pair of inverse codes: the compressed form of a
\* text is the text marked "lz"; of null or undefined it is ''
compressToEncodedURIComponent(text) ==
    IF text = Undefined THEN EmptyString ELSE <<"lz", text>>

\* the possible outcomes of decompressing: the text of a compressed form;
\* of anything else null, '' or a text that is not JSON
decompressFromEncodedURIComponent(compressed) ==
    IF Len(compressed) = 2 /\ compressed[1] = "lz" THEN {compressed[2]}
    ELSE {Null, EmptyText, InvalidText}

\* the '#' kept in front of what it was given
Slice_whole(fragment) == fragment

\* window.location.hash.slice(1): remove the # symbol
Slice(fragment) == IF fragment = EmptyString THEN EmptyString ELSE Tail(fragment)

\* window.location.hash = compressed: the fragment with its # symbol
HashOf(compressed) ==
    IF compressed = EmptyString THEN EmptyString ELSE <<"#">> \o compressed

\* the try without its catch: the SyntaxError of JSON.parse reaches the caller
Parsed_noCatch(decompressed) ==
    IF decompressed \in {Null, EmptyText} THEN Null
    ELSE IF ParseThrows(decompressed) THEN [thrown |-> "SyntaxError"]
    ELSE JsonParse(decompressed)

\* the value loadState returns when decompressing gives `decompressed`
Parsed(decompressed) ==
    IF decompressed \in {Null, EmptyText} THEN Null
    ELSE IF ParseThrows(decompressed) THEN Null
    ELSE JsonParse(decompressed)

\* the values loadState can return
loadState(fragment) ==
    IF Slice(fragment) = EmptyString THEN {Null}
    ELSE {Parsed(decompressed) :
            decompressed \in decompressFromEncodedURIComponent(Slice(fragment))}

\* values of a field: numbers, a cleared field (''), null, and values JSON
\* cannot write (NaN, undefined)
FieldValues == {Num(100), Norm(7, 2, 0), JsString(""), Null, NaN, Undefined}

\* the data given to saveState
SettingsData ==
    {[DefaultSettings EXCEPT !.dailyUsers = u, !.messagesPerConversation = m,
                             !.selectedModel = s] :
        u \in FieldValues, m \in FieldValues,
        s \in {JsString("gpt-4o"), JsString("non-existent-model")}}
    \cup {Null, [dailyUsers |-> Num(5)]}

\* fragments of URLs opened from outside: none, a link shared from another
\* page, and text no saveState wrote
ForeignFragments ==
    {EmptyString,
     HashOf(compressToEncodedURIComponent(JsonStringify(DefaultSettings))),
     HashOf(compressToEncodedURIComponent(InvalidText)),
     <<"#", "garbage">>}

InitUrl ==
    /\ input = DefaultInput
    /\ result = NoResult
    /\ op = "idle"
    /\ arg = Zero
    /\ ret = Zero
    /\ VerifierIdle
    /\ log = <<>>
    /\ UrlIdle
    /\ TextIdle
    /\ AppIdle

SaveState ==
    /\ \E data \in SettingsData :
          /\ hash' = HashOf(compressToEncodedURIComponent(JsonStringify(data)))
          /\ saved' = data
    /\ op' = "saveState"
    /\ UNCHANGED <<calcVars, arg, ret, checkVars, log, loaded, textVars, appVars>>

LoadState ==
    /\ loaded' \in loadState(hash)
    /\ op' = "loadState"
    /\ UNCHANGED <<calcVars, arg, ret, checkVars, log, hash, saved, textVars, appVars>>

\* the page is opened with a fragment no saveState of this page wrote
Navigate ==
    /\ hash' \in ForeignFragments
    /\ saved' = NoData
    /\ op' = "navigate"
    /\ UNCHANGED <<calcVars, arg, ret, checkVars, log, loaded, textVars, appVars>>

NextUrl == SaveState \/ LoadState \/ Navigate

SpecUrl == InitUrl /\ [][NextUrl]_vars

----------------------------------------------------------------------------
(* Example content: generateRandomText and generateConversation *)

loremWords ==
    <<"lorem", "ipsum", "dolor", "sit", "amet", "consectetur", "adipiscing",
      "elit", "sed", "do", "eiusmod", "tempor", "incididunt", "ut", "labore",
      "et", "dolore", "magna", "aliqua", "enim", "ad", "minim", "veniam",
      "quis", "nostrud", "exercitation">>

\* values Math.random() returns: the least, a middle one, one close to 1
RandomValues == {Zero, Dec(5, -1), Dec(999, -3)}

\* Math.random() floored before it is scaled: always the first word
WordAt_first(random) == loremWords[ToInt(NumFloor(random)) * Len(loremWords) + 1]

\* loremWords[Math.floor(Math.random() * loremWords.length)]
WordAt(random) ==
    loremWords[ToInt(NumFloor(NumMul(random, Num(Len(loremWords))))) + 1]

\* the loop runs once more: i <= wordCount
Iterations_inclusive(count) ==
    IF IsNaN(count) \/ NumLt(count, Zero) THEN 0 ELSE ToInt(NumFloor(count)) + 1

\* the number of times `for (let i = 0; i < count; i++)` runs its body
Iterations(count) ==
    IF IsNaN(count) \/ NumLe(count, Zero) THEN 0 ELSE ToInt(NumCeil(count))

\* result.join(' '): the words with a space between neighbours
Join(words) ==
    [i \in 1 .. (IF Len(words) = 0 THEN 0 ELSE 2 * Len(words) - 1) |->
        IF i % 2 = 1 THEN words[(i + 1) \div 2] ELSE " "]

\* generateRandomText(wordCount), its random values taken from `draws`
generateRandomText(wordCount, draws) ==
    Join([i \in 1 .. Iterations(wordCount) |-> WordAt(draws[i])])

\* the elements of Array.from({ length: chunksPerQuery }, ...)
ChunkCount(chunksPerQuery) ==
    IF ArrayFromThrows(chunksPerQuery) THEN 0 ELSE ToInt(ToLength(chunksPerQuery))

\* the random values one exchange draws: query, chunks, response
DrawsPerExchange(userQueryWords, chunksPerQuery, wordsPerChunk, responseWords) ==
    Iterations(userQueryWords)
        + ChunkCount(chunksPerQuery) * Iterations(wordsPerChunk)
        + Iterations(responseWords)

\* `count` values of `draws` after the first `offset`
Drawn(draws, offset, count) == SubSeq(draws, offset + 1, offset + count)

\* one chunk less than asked for
Chunks_oneLess(chunksPerQuery, wordsPerChunk, draws) ==
    [j \in 1 .. ChunkCount(chunksPerQuery) - 1 |->
        generateRandomText(wordsPerChunk,
            Drawn(draws, (j - 1) * Iterations(wordsPerChunk),
                  Iterations(wordsPerChunk)))]

\* Array.from({ length: chunksPerQuery }, () => generateRandomText(wordsPerChunk))
Chunks(chunksPerQuery, wordsPerChunk, draws) ==
    [j \in 1 .. ChunkCount(chunksPerQuery) |->
        generateRandomText(wordsPerChunk,
            Drawn(draws, (j - 1) * Iterations(wordsPerChunk),
                  Iterations(wordsPerChunk)))]

\* the object pushed for one exchange, from the values it draws
Exchange(userQueryWords, chunksPerQuery, wordsPerChunk, responseWords, draws) ==
    [userQuery |-> generateRandomText(userQueryWords, draws),
     chunks |->
        Chunks(chunksPerQuery, wordsPerChunk,
               Drawn(draws, Iterations(userQueryWords),
                     ChunkCount(chunksPerQuery) * Iterations(wordsPerChunk))),
     response |->
        generateRandomText(responseWords,
            Drawn(draws,
                  Iterations(userQueryWords)
                      + ChunkCount(chunksPerQuery) * Iterations(wordsPerChunk),
                  Iterations(responseWords)))]

\* the RangeError of Array.from, which generateConversation does not catch
Thrown == [thrown |-> "RangeError"]

generateConversation(messagesCount, userQueryWords, chunksPerQuery, wordsPerChunk, responseWords, draws) ==
    IF Iterations(messagesCount) > 0 /\ ArrayFromThrows(chunksPerQuery)
    THEN Thrown
    ELSE [conversation |->
            [i \in 1 .. Iterations(messagesCount) |->
                Exchange(userQueryWords, chunksPerQuery, wordsPerChunk,
                         responseWords,
                         Drawn(draws,
                               (i - 1) * DrawsPerExchange(userQueryWords,
                                            chunksPerQuery, wordsPerChunk,
                                            responseWords),
                               DrawsPerExchange(userQueryWords, chunksPerQuery,
                                                wordsPerChunk, responseWords)))]]

MaxWords == 3

\* word counts asked for: integers, a negative one, a fraction
WordCounts == {Num(i) : i \in -1 .. MaxWords} \cup {Norm(5, 2, 0)}

\* the arguments of generateConversation: messagesCount, userQueryWords,
\* chunksPerQuery, wordsPerChunk, responseWords
ConversationArgs ==
    {<<Num(2), Num(1), Num(2), Num(1), Num(1)>>,
     <<Num(1), Num(2), Num(1), Num(2), Num(1)>>,
     <<Num(2), Num(1), Num(1), Num(1), Num(2)>>,
     <<Zero, Num(1), Num(1), Num(1), Num(1)>>,
     <<Num(1), Num(1), Zero, Num(1), Num(1)>>,
     <<Norm(5, 2, 0), Num(1), Num(1), Num(1), Num(1)>>,
     <<Num(2), Num(1), Norm(5, 2, 0), Num(1), Num(1)>>,
     <<Num(1), Num(1), Num(-1), Num(1), Num(1)>>,
     <<Num(1), Num(1), Huge, Num(1), Num(1)>>}

\* the random values a generateConversation call draws
DrawsOf(args) ==
    Iterations(args[1]) * DrawsPerExchange(args[2], args[3], args[4], args[5])

InitExample ==
    /\ input = DefaultInput
    /\ result = NoResult
    /\ ConverterIdle
    /\ VerifierIdle
    /\ log = <<>>
    /\ UrlIdle
    /\ TextIdle
    /\ AppIdle

\* a call of generateRandomText; at most two are kept
GenerateRandomText ==
    /\ content = NoContent
    /\ Len(generated) < 2
    /\ \E wordCount \in WordCounts :
          \E draws \in [1 .. Iterations(wordCount) -> RandomValues] :
              generated' = Append(generated,
                                  [wordCount |-> wordCount,
                                   draws |-> draws,
                                   text |-> generateRandomText(wordCount, draws)])
    /\ UNCHANGED <<calcVars, convVars, checkVars, log, urlVars, content, appVars>>

GenerateConversation ==
    /\ content = NoContent
    /\ generated = <<>>
    /\ \E args \in ConversationArgs :
          \E draws \in [1 .. DrawsOf(args) -> {Zero, Dec(999, -3)}] :
              content' = [args |-> args,
                          draws |-> draws,
                          value |-> generateConversation(args[1], args[2], args[3],
                                                         args[4], args[5], draws)]
    /\ UNCHANGED <<calcVars, convVars, checkVars, log, urlVars, generated, appVars>>

NextExample == GenerateRandomText \/ GenerateConversation

SpecExample == InitExample /\ [][NextExample]_vars

----------------------------------------------------------------------------
(* The page: its settings, the watcher that saves them, the load on mount *)

\* a value that is neither a number, a string, null nor undefined
IsObject(v) == ~(IsNumber(v) \/ IsString(v) \/ v = Null \/ v = Undefined)

\* if (savedState): false for null, undefined, 0, NaN and ''
Truthy(v) ==
    /\ v \notin {Null, Undefined, Zero, NaN}
    /\ v # JsString("")

\* savedState.key: undefined when the value has no such property
Field(savedState, key) ==
    IF IsObject(savedState) /\ key \in DOMAIN savedState
    THEN savedState[key]
    ELSE Undefined

\* a || b: the right side for every falsy left side
Coalesce_falsy(a, b) == IF Truthy(a) THEN a ELSE b

\* a ?? b: the right side when the left is null or undefined
Coalesce(a, b) == IF a \in {Null, Undefined} THEN b ELSE a

\* the assignments of onMounted under if (savedState)
Merge(current, savedState) ==
    [key \in DOMAIN current |-> Coalesce(Field(savedState, key), current[key])]

\* Math.floor(Math.random() * span) without the least value added
RandomInteger_fromZero(random, span, least) ==
    NumFloor(NumMul(random, Num(span)))

\* Math.floor(Math.random() * span) + least
RandomInteger(random, span, least) ==
    NumAdd(NumFloor(NumMul(random, Num(span))), Num(least))

\* the settings after randomizeSettings, its six calls of Math.random()
\* returning draws[1] .. draws[6]
Randomized(current, draws) ==
    [current EXCEPT
        !.conversationsPerUser = RandomInteger(draws[1], 5, 1),
        !.messagesPerConversation = RandomInteger(draws[2], 7, 3),
        !.wordsPerChunk = RandomInteger(draws[3], 300, 100),
        !.userQueryWords = RandomInteger(draws[4], 32, 8),
        !.responseWords = RandomInteger(draws[5], 90, 30),
        !.chunksPerQuery = RandomInteger(draws[6], 3, 1)]

\* the object of the watcher's callback without its selectedModel
WatcherData_withoutModel(current) ==
    [key \in DOMAIN current \ {"selectedModel"} |-> current[key]]

\* the object the watcher's callback gives to saveState
WatcherData(current) ==
    [key \in {KeyOrder[i] : i \in DOMAIN KeyOrder} |-> current[key]]

\* what v-model.number can write to a number setting: the number typed
\* (0 and negatives included, min is not enforced), '' for a cleared field
TypedValues == {Zero, JsString("")}

\* what v-model can write to a setting
EditValues(key) ==
    IF key = "selectedModel"
    THEN {JsString(id) : id \in DOMAIN OPENAI_MODELS}
    ELSE TypedValues

\* the values the six calls of Math.random() in randomizeSettings return:
\* the least, the greatest, and the two in turn
ClickDraws ==
    {[i \in 1 .. 6 |-> Zero], [i \in 1 .. 6 |-> Dec(999, -3)],
     [i \in 1 .. 6 |-> IF i % 2 = 1 THEN Dec(999, -3) ELSE Dec(5, -1)]}

\* objects in the fragment of a link: settings saved by the page with
\* another model, and a link with some fields only, a 0 and a null field
LinkData ==
    {[DefaultSettings EXCEPT !.dailyUsers = Num(250),
                             !.selectedModel = JsString("non-existent-model")],
     [dailyUsers |-> Zero, conversationsPerUser |-> Null,
      wordsPerChunk |-> Num(300)]}

\* the fragment of the URL the page is opened with
LinkFragments ==
    {EmptyString}
    \cup {HashOf(compressToEncodedURIComponent(JsonStringify(data))) :
            data \in LinkData}

MaxEvents == 2

InitApp ==
    /\ input = DefaultInput
    /\ result = NoResult
    /\ ConverterIdle
    /\ VerifierIdle
    /\ log = <<>>
    /\ hash \in LinkFragments
    /\ saved = NoData
    /\ loaded = NotLoaded
    /\ TextIdle
    /\ AppIdle

\* onMounted: the saved state is loaded and merged into the settings; the
\* watcher's callback is queued when a setting changed
Mount ==
    /\ ~mounted
    /\ loaded' \in loadState(hash)
    /\ settings' = IF Truthy(loaded') THEN Merge(settings, loaded')
                   ELSE settings
    /\ pending' = (settings' # settings)
    /\ mounted' = TRUE
    /\ op' = "onMounted"
    /\ UNCHANGED <<calcVars, arg, ret, checkVars, log, hash, saved, textVars,
                   events>>

\* a setting is edited in its field
Edit ==
    /\ mounted /\ ~pending /\ events < MaxEvents
    /\ \E key \in DOMAIN settings : \E value \in EditValues(key) :
          settings' = [settings EXCEPT ![key] = value]
    /\ pending' = (settings' # settings)
    /\ events' = events + 1
    /\ op' = "edit"
    /\ UNCHANGED <<calcVars, arg, ret, checkVars, log, urlVars, textVars,
                   mounted>>

\* the Randomize button is clicked
RandomizeSettings ==
    /\ mounted /\ ~pending /\ events < MaxEvents
    /\ \E draws \in ClickDraws :
          settings' = Randomized(settings, draws)
    /\ pending' = (settings' # settings)
    /\ events' = events + 1
    /\ op' = "randomizeSettings"
    /\ UNCHANGED <<calcVars, arg, ret, checkVars, log, urlVars, textVars,
                   mounted>>

\* the queued callback of the watcher runs: saveState with the settings
FlushWatcher ==
    /\ pending
    /\ hash' = HashOf(compressToEncodedURIComponent(
                        JsonStringify(WatcherData(settings))))
    /\ saved' = WatcherData(settings)
    /\ pending' = FALSE
    /\ op' = "saveState"
    /\ UNCHANGED <<calcVars, arg, ret, checkVars, log, loaded, textVars,
                   settings, mounted, events>>

\* the page is loaded again with the fragment it has
Reload ==
    /\ mounted /\ ~pending /\ events < MaxEvents
    /\ settings' = DefaultSettings
    /\ mounted' = FALSE
    /\ loaded' = NotLoaded
    /\ events' = events + 1
    /\ op' = "reload"
    /\ UNCHANGED <<calcVars, arg, ret, checkVars, log, hash, saved, textVars,
                   pending>>

NextApp == Mount \/ Edit \/ RandomizeSettings \/ FlushWatcher \/ Reload

SpecApp == InitApp /\ [][NextApp]_vars

\* the queued callback runs before the page handles another event
SpecAppLive == SpecApp /\ WF_vars(FlushWatcher)

----------------------------------------------------------------------------
(* Properties *)

\* twice a number, as an integer (for the halves and integers of the model)
Halves(a) == ToInt(NumMul(a, Num(2)))

IsNatural(a) == a.k = "fin" /\ a.d = 1 /\ a.e >= 0 /\ a.n >= 0

Called == result # NoResult

NumericFields ==
    {"tokensPerMessage", "wordsPerMessage", "totalDailyMessages", "dailyCost",
     "monthlyCost", "annualCost", "costPerMessage", "costPerUser",
     "averageHistoryTokens"}

ValueFields == {"inputTokens", "outputTokens", "totalMessages", "dailyCost"}

FlagFields ==
    {"inputTokensMatch", "outputTokensMatch", "totalMessagesMatch",
     "dailyCostMatch"}

\* every numeric field and every expected and actual value is 0, and the
\* validity flag and the four match flags are all `flag`
AllZeroWithFlags(r, flag) ==
    /\ \A f \in NumericFields : r[f] = Zero
    /\ r.backcheck.isValid = flag
    /\ \A f \in FlagFields : r.backcheck.details[f] = flag
    /\ \A f \in ValueFields :
          /\ r.backcheck.details.expectedValues[f] = Zero
          /\ r.backcheck.details.actualValues[f] = Zero

\* a complete result object with its embedded backcheck
WellFormed(r) ==
    /\ DOMAIN r = NumericFields \cup {"backcheck"}
    /\ DOMAIN r.backcheck = {"isValid", "details"}
    /\ r.backcheck.isValid \in BOOLEAN
    /\ DOMAIN r.backcheck.details =
          FlagFields \cup {"expectedValues", "actualValues"}
    /\ DOMAIN r.backcheck.details.expectedValues = ValueFields
    /\ DOMAIN r.backcheck.details.actualValues = ValueFields

\* C1: wordsToTokens returns 0 for words <= 0 and the ceiling of
\* words * 1.33 for words > 0: the least integer T with 1.33 * words <= T,
\* where words = h / 2; 0.5 -> 1, 10 -> 14, 100 -> 133, 1000000 -> 1330000.
C1_WordsToTokensIsCeiling ==
    op = "wordsToTokens" =>
        /\ IsNatural(ret)
        /\ Halves(arg) <= 0 => ret = Zero
        /\ Halves(arg) > 0 =>
              /\ 133 * Halves(arg) <= 200 * ToInt(ret)
              /\ 200 * (ToInt(ret) - 1) < 133 * Halves(arg)
        /\ arg = Norm(1, 2, 0) => ret = Num(1)
        /\ arg = Num(10) => ret = Num(14)
        /\ arg = Num(100) => ret = Num(133)
        /\ arg = Num(1000000) => ret = Num(1330000)
        /\ arg = Num(-1) => ret = Zero

C1_Witness == op = "wordsToTokens" /\ arg = Num(10) /\ ret = Num(14)

\* C2: tokensToWords returns 0 for tokens <= 0 and the ceiling of
\* tokens / 1.33 for tokens > 0: the least integer W with tokens <= 1.33 * W,
\* where tokens = h / 2; 14 -> 11, 133 -> 100, 0.5 -> 1, 1000000 -> 751880.
C2_TokensToWordsIsCeiling ==
    op = "tokensToWords" =>
        /\ IsNatural(ret)
        /\ Halves(arg) <= 0 => ret = Zero
        /\ Halves(arg) > 0 =>
              /\ 100 * Halves(arg) <= 266 * ToInt(ret)
              /\ 266 * (ToInt(ret) - 1) < 100 * Halves(arg)
        /\ arg = Num(14) => ret = Num(11)
        /\ arg = Num(133) => ret = Num(100)
        /\ arg = Norm(1, 2, 0) => ret = Num(1)
        /\ arg = Num(1000000) => ret = Num(751880)
        /\ arg = Num(-1) => ret = Zero

C2_Witness == op = "tokensToWords" /\ arg = Num(133) /\ ret = Num(100)

\* C3: when dailyUsers, conversationsPerUser or messagesPerConversation is
\* exactly 0, whatever the other fields and the model, the result has every
\* numeric field 0 and a backcheck with isValid and the four match flags
\* true and every expected and actual value 0.
C3_ZeroGuard ==
    (/\ Called
     /\ \/ input.dailyUsers = Zero
        \/ input.conversationsPerUser = Zero
        \/ input.messagesPerConversation = Zero)
        => AllZeroWithFlags(result, TRUE)

\* only messagesPerConversation is 0, the other counts are huge and negative
C3_Witness ==
    /\ Called
    /\ input.messagesPerConversation = Zero
    /\ input.dailyUsers = Huge
    /\ input.conversationsPerUser = Num(-1)
    /\ input.selectedModel = "non-existent-model"
    /\ result.backcheck.isValid

\* C4: calculateCosts is total: on every configuration the call returns a
\* complete result object with an embedded backcheck; when a fault is raised
\* inside the calculation, that result has every numeric field 0, isValid
\* and the four match flags false and every expected and actual value 0.
C4_TotalWithFaultFallback ==
    /\ Called => WellFormed(result)
    /\ (Called /\ Throws(input)) => AllZeroWithFlags(result, FALSE)

C4_Witness ==
    /\ Called
    /\ Throws(input)
    /\ input.messagesPerConversation = Huge
    /\ ~result.backcheck.isValid

\* the call took the normal path: no early return, no fault
NormalPath == Called /\ ~IsDegenerate(input) /\ ~Throws(input)

Details == result.backcheck.details

AllInputsFinite ==
    \A f \in DOMAIN input \ {"selectedModel"} : IsFinite(input[f])

BackcheckAgrees ==
    /\ Details.totalMessagesMatch
    /\ Details.dailyCostMatch
    /\ result.backcheck.isValid

\* C5 as stated: on the normal path, for every configuration with finite
\* numeric fields, totalMessagesMatch, dailyCostMatch and isValid are true.
C5_Original == (NormalPath /\ AllInputsFinite) => BackcheckAgrees

\* the daily token volumes are below 10^12 in magnitude
VolumesInRange ==
    /\ NumLt(NumAbs(NumMul(Details.actualValues.inputTokens,
                           result.totalDailyMessages)), Dec(1, 12))
    /\ NumLt(NumAbs(NumMul(Details.actualValues.outputTokens,
                           result.totalDailyMessages)), Dec(1, 12))

\* C5, amended: on the normal path, for every configuration with finite
\* numeric fields whose daily token volumes (input tokens per message times
\* total daily messages, output tokens times total daily messages) are below
\* 10^12 in magnitude, totalMessagesMatch, dailyCostMatch and isValid are
\* true: the calculator's totalDailyMessages and dailyCost agree with the
\* verifier's recomputation within 0.0001.
C5_BackcheckAgreesInRange ==
    (NormalPath /\ AllInputsFinite /\ VolumesInRange) => BackcheckAgrees

C5_Witness ==
    /\ NormalPath
    /\ input = DefaultInput
    /\ VolumesInRange
    /\ result.dailyCost = Dec(4065, -3)
    /\ Details.expectedValues.dailyCost = Dec(4065, -3)
    /\ result.backcheck.isValid

UsageProduct ==
    NumMul(NumMul(input.dailyUsers, input.conversationsPerUser),
           input.messagesPerConversation)

TotalMessagesAgree ==
    /\ result.totalDailyMessages = UsageProduct
    /\ Details.expectedValues.totalMessages = UsageProduct
    /\ Details.actualValues.totalMessages = result.totalDailyMessages

PriceOf(field) ==
    IF input.selectedModel \in DOMAIN OPENAI_MODELS
    THEN OPENAI_MODELS[input.selectedModel][field]
    ELSE Zero

\* tokens * totalDailyMessages / 1000 * price
CostOfTokens(tokens, price) ==
    NumMul(NumDiv(NumMul(tokens, result.totalDailyMessages), Num(1000)), price)

\* C7: for every non-degenerate configuration, dailyCost =
\* totalInputTokens * totalDailyMessages / 1000 * inputPrice +
\* outputTokens * totalDailyMessages / 1000 * outputPrice, with
\* totalInputTokens the input tokens per message, history included (on the
\* normal path tokensPerMessage = totalInputTokens + outputTokens); 1320 and
\* 100 tokens, 1500 messages and the prices 0.0025 and 0.01 give 6.45.
C7_DailyCostFormula ==
    /\ (Called /\ ~IsDegenerate(input)) =>
          result.dailyCost =
              NumAdd(CostOfTokens(Details.actualValues.inputTokens,
                                  PriceOf("inputPrice")),
                     CostOfTokens(Details.actualValues.outputTokens,
                                  PriceOf("outputPrice")))
    /\ NormalPath =>
          result.tokensPerMessage =
              NumAdd(Details.actualValues.inputTokens,
                     Details.actualValues.outputTokens)
    /\ DailyCost(Num(1320), Num(100), Num(1500), OPENAI_MODELS["gpt-4o"])
          = Dec(645, -2)

C7_Witness ==
    /\ NormalPath
    /\ input = DefaultInput
    /\ Details.actualValues.inputTokens = Num(764)
    /\ Details.actualValues.outputTokens = Num(80)
    /\ result.dailyCost = Dec(4065, -3)

\* C8: in every result (normal, zero-guard and fault path), monthlyCost =
\* dailyCost * 30 and annualCost = dailyCost * 365; annualCost is not
\* monthlyCost * 12, which differs whenever dailyCost is finite and not 0.
C8_CostScaling ==
    Called =>
        /\ result.monthlyCost = NumMul(result.dailyCost, Num(30))
        /\ result.annualCost = NumMul(result.dailyCost, Num(365))
        /\ (IsFinite(result.dailyCost) /\ result.dailyCost # Zero) =>
              result.annualCost # NumMul(result.monthlyCost, Num(12))

C8_Witness ==
    /\ Called
    /\ result.dailyCost = Dec(4065, -3)
    /\ result.monthlyCost = Dec(12195, -2)
    /\ result.annualCost = Dec(1483725, -3)

UnknownModel == input.selectedModel \notin DOMAIN OPENAI_MODELS

\* the result for the same usage fields and the known model
KnownModelResult == calculateCosts([input EXCEPT !.selectedModel = "gpt-4o"])

ZeroCostSameCounts ==
    /\ result.dailyCost = Zero
    /\ result.monthlyCost = Zero
    /\ result.annualCost = Zero
    /\ result.backcheck.isValid
    /\ Details.expectedValues.dailyCost = Zero
    /\ Details.actualValues.dailyCost = Zero
    /\ \A f \in {"tokensPerMessage", "wordsPerMessage", "totalDailyMessages",
                 "averageHistoryTokens"} : result[f] = KnownModelResult[f]

\* C9 as stated: for every non-degenerate configuration whose model is not
\* in the price table, the three costs are 0, the backcheck is valid with
\* expected and actual dailyCost 0, and the token, word and message counts
\* are those of a known model.
C9_Original == (Called /\ UnknownModel /\ ~IsDegenerate(input)) => ZeroCostSameCounts

\* the daily token volumes are finite
VolumesFinite ==
    /\ IsFinite(NumMul(Details.actualValues.inputTokens, result.totalDailyMessages))
    /\ IsFinite(NumMul(Details.actualValues.outputTokens, result.totalDailyMessages))

\* C9, amended: when the selected model is absent from the price table, for
\* every non-degenerate configuration on which no fault is raised and whose
\* daily token volumes (tokens per message times total daily messages) are
\* finite, dailyCost = monthlyCost = annualCost = 0, backcheck.isValid is
\* true, expected and actual dailyCost are 0, and tokensPerMessage,
\* wordsPerMessage, totalDailyMessages and averageHistoryTokens are those of
\* a known model with the same usage fields.
C9_UnknownModelCostsNothing ==
    (NormalPath /\ UnknownModel /\ VolumesFinite) => ZeroCostSameCounts

C9_Witness ==
    /\ NormalPath
    /\ input = [DefaultInput EXCEPT !.selectedModel = "non-existent-model"]
    /\ result.dailyCost = Zero
    /\ result.tokensPerMessage = Num(844)
    /\ result.totalDailyMessages = Num(1500)
    /\ result.backcheck.isValid

\* the messages of a conversation: the indices 0 .. MessageCount - 1
MessageCount == ToLength(input.messagesPerConversation)

ExchangeTokens ==
    NumAdd(wordsToTokens(input.userQueryWords), wordsToTokens(input.responseWords))

\* (0 + 1 + ... + (MessageCount - 1)) * (queryTokens + outputTokens) / N
ExactAverageHistory ==
    NumDiv(NumMul(NumDiv(NumMul(MessageCount, NumSub(MessageCount, Num(1))),
                         Num(2)),
                  ExchangeTokens),
           input.messagesPerConversation)

HistoryFreeTokens(in) ==
    NumAdd(NumAdd(NumMul(in.chunksPerQuery, wordsToTokens(in.wordsPerChunk)),
                  wordsToTokens(in.userQueryWords)),
           wordsToTokens(in.responseWords))

\* chunksPerQuery * chunkTokens + queryTokens + average history + outputTokens,
\* the average history unrounded
TokensPerMessageSum ==
    NumAdd(NumAdd(NumAdd(NumMul(input.chunksPerQuery,
                                wordsToTokens(input.wordsPerChunk)),
                         wordsToTokens(input.userQueryWords)),
                  ExactAverageHistory),
           wordsToTokens(input.responseWords))

TokensPerMessageAgrees ==
    /\ result.tokensPerMessage = TokensPerMessageSum
    /\ result.wordsPerMessage = tokensToWords(result.tokensPerMessage)
    /\ result.averageHistoryTokens # ExactAverageHistory =>
          result.tokensPerMessage #
              NumAdd(HistoryFreeTokens(input), result.averageHistoryTokens)

C12_PerUnitCosts ==
    /\ (Called /\ ~IsDegenerate(input)) =>
          /\ NumGt(result.totalDailyMessages, Zero) =>
                result.costPerMessage =
                    NumDiv(result.monthlyCost,
                           NumMul(result.totalDailyMessages, Num(30)))
          /\ ~NumGt(result.totalDailyMessages, Zero) =>
                result.costPerMessage = Zero
          /\ NumGt(input.dailyUsers, Zero) =>
                result.costPerUser = NumDiv(result.monthlyCost, input.dailyUsers)
          /\ ~NumGt(input.dailyUsers, Zero) => result.costPerUser = Zero
    /\ (Called /\ input = DefaultInput) =>
          /\ result.costPerMessage = Dec(271, -5)
          /\ result.costPerUser = Dec(12195, -4)

C12_Witness ==
    /\ Called
    /\ input = DefaultInput
    /\ result.monthlyCost = Dec(12195, -2)
    /\ result.costPerMessage = Dec(271, -5)
    /\ result.costPerUser = Dec(12195, -4)

UsageFields == {"dailyUsers", "conversationsPerUser", "messagesPerConversation"}

IsInteger(a) == a.k = "fin" /\ a.d = 1 /\ a.e >= 0

\* a length Array.from accepts: below 2^32, its quarter below 2^30
WithinArrayLimit(len) == NumLt(NumDiv(len, Num(4)), Num(1073741824))

\* the daily token volumes of a result are below 10^12 in magnitude
InRange(r) ==
    /\ NumLt(NumAbs(NumMul(r.backcheck.details.actualValues.inputTokens,
                           r.totalDailyMessages)), Dec(1, 12))
    /\ NumLt(NumAbs(NumMul(r.backcheck.details.actualValues.outputTokens,
                           r.totalDailyMessages)), Dec(1, 12))

KnownModel == input.selectedModel \in DOMAIN OPENAI_MODELS

\* the configuration of the state with the count `field` set to `value`
WithCount(field, value) == [input EXCEPT ![field] = value]

\* `more` is a result with strictly more messages and, at positive prices,
\* a strictly higher daily cost than the result of the state
StrictlyMore(more) ==
    /\ NumLt(result.totalDailyMessages, more.totalDailyMessages)
    /\ KnownModel => NumLt(result.dailyCost, more.dailyCost)

\* C15 as stated: increasing one usage count, the other fields held fixed,
\* strictly increases totalDailyMessages and, at positive prices, dailyCost.
C15_Original ==
    Called =>
        \A field \in UsageFields : \A value \in UsageValues[field] :
            NumLt(input[field], value) =>
                StrictlyMore(calculateCosts(WithCount(field, value)))

\* the three counts and the new value are integers, the two counts held
\* fixed are positive, and messagesPerConversation is a length Array.from
\* accepts before and after
CountsInRange(field, value) ==
    /\ \A f \in UsageFields : IsInteger(input[f])
    /\ IsInteger(value)
    /\ \A f \in UsageFields \ {field} : NumGt(input[f], Zero)
    /\ WithinArrayLimit(input.messagesPerConversation)
    /\ WithinArrayLimit(WithCount(field, value).messagesPerConversation)

MoreInRange(more) ==
    /\ InRange(more)
    /\ NumLt(result.totalDailyMessages, more.totalDailyMessages)
    /\ (/\ KnownModel
        /\ NumLe(Zero, input.chunksPerQuery)
        /\ NumGt(HistoryFreeTokens(input), Zero))
            => NumLt(result.dailyCost, more.dailyCost)

\* C15, amended: for integer usage counts, increasing one of them while the
\* other two are positive and the other fields are held fixed, with
\* messagesPerConversation at most 2^32 - 1 and daily token volumes below
\* 10^12 before and after, strictly increases totalDailyMessages and, for a
\* model with positive prices, a chunksPerQuery that is not negative and a
\* positive token count per message, strictly increases dailyCost.
C15_MonotoneInRange ==
    (Called /\ InRange(result)) =>
        \A field \in UsageFields : \A value \in UsageValues[field] :
            (/\ NumLt(input[field], value)
             /\ CountsInRange(field, value)
             /\ InRange(calculateCosts(WithCount(field, value))))
                => MoreInRange(calculateCosts(WithCount(field, value)))

\* messagesPerConversation 4 can be raised to 5: 1200 messages at 3.096
\* against 1500 at 4.065
C15_Witness ==
    /\ Called
    /\ input = [DefaultInput EXCEPT !.messagesPerConversation = Num(4)]
    /\ result.totalDailyMessages = Num(1200)
    /\ result.dailyCost = Dec(3096, -3)
    /\ CountsInRange("messagesPerConversation", Num(5))
    /\ calculateCosts(WithCount("messagesPerConversation", Num(5))).dailyCost
          = Dec(4065, -3)

\* ceiling of a / b for positive integers
CeilDiv(a, b) == (a + b - 1) \div b

\* C17: for the reference configuration (gpt-4o at 0.0025 / 0.01 per 1K
\* tokens, 100 users, 3 conversations, 5 messages, 200 words per chunk,
\* 2 chunks, 18 query words, 60 response words) calculateCosts returns
\* totalDailyMessages = 1500, dailyCost > 0, backcheck.isValid = true and a
\* tokensPerMessage above 2 * ceil(200 * 1.33) + ceil(18 * 1.33) +
\* ceil(60 * 1.33) = 636.
C17_ReferenceConfiguration ==
    /\ OPENAI_MODELS["gpt-4o"].inputPrice = Dec(25, -4)
    /\ OPENAI_MODELS["gpt-4o"].outputPrice = Dec(1, -2)
    /\ (/\ Called
        /\ input.selectedModel = "gpt-4o"
        /\ input.dailyUsers = Num(100)
        /\ input.conversationsPerUser = Num(3)
        /\ input.messagesPerConversation = Num(5)
        /\ input.wordsPerChunk = Num(200)
        /\ input.chunksPerQuery = Num(2)
        /\ input.userQueryWords = Num(18)
        /\ input.responseWords = Num(60))
            => /\ result.totalDailyMessages = Num(1500)
               /\ NumGt(result.dailyCost, Zero)
               /\ result.backcheck.isValid
               /\ NumGt(result.tokensPerMessage,
                        Num(2 * CeilDiv(200 * 133, 100) + CeilDiv(18 * 133, 100)
                            + CeilDiv(60 * 133, 100)))

C17_Witness ==
    /\ Called
    /\ input = DefaultInput
    /\ result.totalDailyMessages = Num(1500)
    /\ result.tokensPerMessage = Num(844)
    /\ 2 * CeilDiv(200 * 133, 100) + CeilDiv(18 * 133, 100)
          + CeilDiv(60 * 133, 100) = 636
    /\ result.backcheck.isValid

\* some usage count or word count of the configuration is negative
HasNegative ==
    \E f \in DOMAIN input \ {"selectedModel"} : NumLt(input[f], Zero)

\* no usage count is 0: the configuration passes the zero guard
PassesZeroGuard == \A f \in UsageFields : input[f] # Zero

\* the result is the one the normal algorithm computes: neither literal
\* result, the total the product of the counts, the cost the cost formula
ProcessedNormally ==
    /\ ~AllZeroWithFlags(result, TRUE)
    /\ ~AllZeroWithFlags(result, FALSE)
    /\ result.totalDailyMessages = UsageProduct
    /\ result.tokensPerMessage = TokensPerMessageSum
    /\ result.dailyCost =
          NumAdd(CostOfTokens(NumSub(TokensPerMessageSum,
                                     wordsToTokens(input.responseWords)),
                              PriceOf("inputPrice")),
                 CostOfTokens(wordsToTokens(input.responseWords),
                              PriceOf("outputPrice")))
    /\ (/\ NumLt(input.dailyUsers, Zero)
        /\ NumGt(input.conversationsPerUser, Zero)
        /\ NumGt(input.messagesPerConversation, Zero))
            => NumLt(result.totalDailyMessages, Zero)

C16_RoundTrip ==
    op = "roundTrip" =>
        /\ Halves(arg) > 0 =>
              /\ IsNatural(ret)
              /\ Halves(arg) <= 2 * ToInt(ret)
              /\ NumLe(arg, ret)
        /\ arg = Num(10) => (ret = Num(11) /\ ret # arg)

C16_Witness == op = "roundTrip" /\ arg = Num(10) /\ ret = Num(11)

Checked == report # NoResult

\* dailyUsers * conversationsPerUser * messagesPerConversation of the call
CallProduct ==
    NumMul(NumMul(call.input.dailyUsers, call.input.conversationsPerUser),
           call.input.messagesPerConversation)

\* a price of the model of the call, 0 when the model is absent
CallPrice(field) == IF call.model = Undefined THEN Zero ELSE call.model[field]

\* totalInputTokens * total * inputPrice / 1000 +
\* outputTokens * total * outputPrice / 1000
CallCost ==
    NumAdd(NumDiv(NumMul(NumMul(call.totalInputTokens, CallProduct),
                         CallPrice("inputPrice")), Num(1000)),
           NumDiv(NumMul(NumMul(call.outputTokens, CallProduct),
                         CallPrice("outputPrice")), Num(1000)))

\* -0.0001 < a - b < 0.0001
Within(a, b) ==
    /\ NumLt(NumSub(a, b), Dec(1, -4))
    /\ NumLt(Dec(-1, -4), NumSub(a, b))

\* a - b >= 0.0001 or b - a >= 0.0001
OffBy(a, b) ==
    \/ NumLe(Dec(1, -4), NumSub(a, b))
    \/ NumLe(Dec(1, -4), NumSub(b, a))

\* C13: performBackcheck recomputes the expected total as the product of the
\* three counts and the expected daily cost as totalInputTokens * total *
\* inputPrice / 1000 + outputTokens * total * outputPrice / 1000 (prices 0
\* without a model); totalMessagesMatch and dailyCostMatch are true iff the
\* difference from result.totalDailyMessages, resp. result.dailyCost, is
\* strictly below 0.0001 in magnitude; isValid is the conjunction of the four
\* match flags, so a result off by 0.0001 or more in either quantity is
\* reported invalid.
C13_BackcheckRecomputes ==
    Checked =>
        /\ report.details.expectedValues.totalMessages = CallProduct
        /\ report.details.expectedValues.dailyCost = CallCost
        /\ report.details.actualValues.totalMessages = call.result.totalDailyMessages
        /\ report.details.actualValues.dailyCost = call.result.dailyCost
        /\ report.details.totalMessagesMatch
              <=> Within(CallProduct, call.result.totalDailyMessages)
        /\ report.details.dailyCostMatch
              <=> Within(CallCost, call.result.dailyCost)
        /\ report.isValid
              <=> /\ report.details.totalMessagesMatch
                  /\ report.details.dailyCostMatch
                  /\ report.details.inputTokensMatch
                  /\ report.details.outputTokensMatch
        /\ (\/ OffBy(CallProduct, call.result.totalDailyMessages)
            \/ OffBy(CallCost, call.result.dailyCost))
                => ~report.isValid

\* a daily cost off by exactly 0.0001: 4.0651 against 4.065
C13_Witness ==
    /\ Checked
    /\ call.input = DefaultInput
    /\ call.model = OPENAI_MODELS["gpt-4o"]
    /\ call.totalInputTokens = Num(764)
    /\ call.result.totalDailyMessages = Num(1500)
    /\ call.result.dailyCost = Dec(40651, -4)
    /\ report.details.expectedValues.dailyCost = Dec(4065, -3)
    /\ report.details.totalMessagesMatch
    /\ ~report.details.dailyCostMatch
    /\ ~report.isValid

\* C14: in every report of performBackcheck, inputTokensMatch and
\* outputTokensMatch are true and the expected and the actual inputTokens
\* (outputTokens) both are the totalInputTokens (outputTokens) argument,
\* whatever the result argument holds.
C14_TokenFlagsAlwaysTrue ==
    Checked =>
        /\ report.details.inputTokensMatch
        /\ report.details.outputTokensMatch
        /\ report.details.expectedValues.inputTokens = call.totalInputTokens
        /\ report.details.actualValues.inputTokens = call.totalInputTokens
        /\ report.details.expectedValues.outputTokens = call.outputTokens
        /\ report.details.actualValues.outputTokens = call.outputTokens

\* a result argument with tokensPerMessage 0 and a wrong total and cost
C14_Witness ==
    /\ Checked
    /\ call.totalInputTokens = Num(1320)
    /\ call.result.tokensPerMessage = Zero
    /\ call.result.totalDailyMessages = Num(16)
    /\ ~report.details.totalMessagesMatch
    /\ ~report.details.dailyCostMatch
    /\ report.details.inputTokensMatch
    /\ report.details.outputTokensMatch
    /\ report.details.actualValues.inputTokens = Num(1320)

SerializablePrimitive(v) ==
    \/ v = Null
    \/ IsNumber(v) /\ IsFinite(v)
    \/ IsString(v)

\* a settings object (or null) JSON can write
Serializable(data) ==
    \/ data = Null
    \/ /\ data # Undefined
       /\ \A key \in DOMAIN data : SerializablePrimitive(data[key])

CountsAtLeastOne == \A f \in UsageFields : NumLe(Num(1), input[f])

\* totalDailyMessages > 0 and costPerMessage the quotient, not the fallback
ComputedPerMessage ==
    /\ NumGt(result.totalDailyMessages, Zero)
    /\ result.costPerMessage =
          NumDiv(result.monthlyCost, NumMul(result.totalDailyMessages, Num(30)))

\* C25 as stated: every configuration that passes the zero guard has
\* totalDailyMessages > 0 and a costPerMessage computed as the quotient.
C25_Original == (Called /\ PassesZeroGuard) => ComputedPerMessage

\* C25, amended: for every configuration whose three usage counts are all
\* at least 1 and on which no fault is raised (messagesPerConversation at
\* most 2^32 - 1), totalDailyMessages > 0, so costPerMessage is computed as
\* monthlyCost / (totalDailyMessages * 30) and never by the fallback.
C25_FallbackUnreachableForPositive ==
    (/\ Called
     /\ CountsAtLeastOne
     /\ WithinArrayLimit(input.messagesPerConversation))
        => ComputedPerMessage

\* one user, one conversation, one message: the least total, 1
C25_Witness ==
    /\ Called
    /\ input = [DefaultInput EXCEPT !.dailyUsers = Num(1),
                                    !.conversationsPerUser = Num(1),
                                    !.messagesPerConversation = Num(1)]
    /\ result.totalDailyMessages = Num(1)
    /\ result.costPerMessage = Dec(219, -5)

PositiveIntegerCounts ==
    \A f \in UsageFields : IsInteger(input[f]) /\ NumGt(input[f], Zero)

\* (N - 1) * (queryTokens + outputTokens) / 2
ClosedFormHistory ==
    NumDiv(NumMul(NumSub(input.messagesPerConversation, Num(1)), ExchangeTokens),
           Num(2))

OneMoreMessage ==
    WithCount("messagesPerConversation",
              NumAdd(input.messagesPerConversation, Num(1)))

\* tokensPerMessage holds the closed form, grows by half an exchange with
\* one more message, and is a multiple of 0.5
ClosedFormAgrees ==
    /\ result.tokensPerMessage =
          NumAdd(HistoryFreeTokens(input), ClosedFormHistory)
    /\ AverageHistoryTokens(input, wordsToTokens(input.userQueryWords),
                            wordsToTokens(input.responseWords))
          = ClosedFormHistory
    /\ NumSub(calculateCosts(OneMoreMessage).tokensPerMessage,
              result.tokensPerMessage)
          = NumDiv(ExchangeTokens, Num(2))
    /\ IsInteger(NumMul(result.tokensPerMessage, Num(2)))

HistorySumExact ==
    NumLt(NumMul(NumDiv(NumMul(OneMoreMessage.messagesPerConversation,
                               input.messagesPerConversation), Num(2)),
                 ExchangeTokens),
          Dec(9, 15))

AllFinite(r) == \A f \in NumericFields : IsFinite(r[f])

PositiveCounts == \A f \in UsageFields : NumGt(input[f], Zero)

\* C30: for every configuration with positive usage counts (the arithmetic
\* exact: every figure finite), costPerMessage * totalDailyMessages =
\* dailyCost and costPerUser = costPerMessage * conversationsPerUser *
\* messagesPerConversation * 30, and another positive dailyUsers alone
\* changes neither costPerMessage nor costPerUser.
C30_PerUnitConsistency ==
    (Called /\ PositiveCounts /\ AllFinite(result)) =>
        /\ NumMul(result.costPerMessage, result.totalDailyMessages)
              = result.dailyCost
        /\ result.costPerUser =
              NumMul(NumMul(NumMul(result.costPerMessage,
                                   input.conversationsPerUser),
                            input.messagesPerConversation), Num(30))
        /\ \A users \in UsageValues.dailyUsers :
              (/\ NumGt(users, Zero)
               /\ AllFinite(calculateCosts(WithCount("dailyUsers", users))))
                  => /\ calculateCosts(WithCount("dailyUsers", users)).costPerMessage
                          = result.costPerMessage
                     /\ calculateCosts(WithCount("dailyUsers", users)).costPerUser
                          = result.costPerUser

\* the reference configuration: 0.00271 a message, 1.2195 a user, the
\* same with one user
C30_Witness ==
    /\ Called
    /\ input = DefaultInput
    /\ result.costPerMessage = Dec(271, -5)
    /\ result.costPerUser = Dec(12195, -4)
    /\ calculateCosts(WithCount("dailyUsers", Num(1))).costPerUser
          = Dec(12195, -4)
    /\ calculateCosts(WithCount("dailyUsers", Num(1))).dailyCost
          # result.dailyCost

\* decompressing the fragment cannot give a non-empty text that is JSON
Undecodable ==
    \A decompressed \in decompressFromEncodedURIComponent(Slice(hash)) :
        decompressed \in {Null, EmptyText, InvalidText}

\* loadState returns a value on every fragment, and null on an empty
\* fragment and on one that does not decode
LoadsOrNull ==
    /\ loadState(hash) # {}
    /\ op = "loadState" =>
          /\ Slice(hash) = EmptyString => loaded = Null
          /\ (Slice(hash) # EmptyString /\ Undecodable) => loaded = Null

\* C21: loadState returns null when the fragment is empty, when it does not
\* decompress to a non-empty string and when the decompressed text is not
\* valid JSON; it raises nothing in these cases and it never changes the
\* fragment.
C21_LoadStateFailsGracefully ==
    /\ []LoadsOrNull
    /\ [][op' = "loadState" => hash' = hash]_vars

\* a fragment that decompresses to a text that is not JSON
C21_Witness ==
    /\ op = "loadState"
    /\ hash = <<"#", "lz", InvalidText>>
    /\ saved = NoData
    /\ loaded = Null

\* text.split(' ') of a joined text: the pieces between the spaces; one
\* empty piece for the empty text
Split(text) ==
    IF Len(text) = 0 THEN <<"">>
    ELSE [i \in 1 .. (Len(text) + 1) \div 2 |-> text[2 * i - 1]]

\* the words of a text: the pieces that are not empty
WordsOf(text) == SelectSeq(Split(text), LAMBDA piece : piece # "")

Vocabulary == {loremWords[i] : i \in DOMAIN loremWords}

\* the text is `count` vocabulary words with single spaces between them
IsTextOf(text, count) ==
    /\ Num(Len(WordsOf(text))) = count
    /\ text = Join(WordsOf(text))
    /\ \A i \in DOMAIN WordsOf(text) : WordsOf(text)[i] \in Vocabulary

IsCount(count) == IsInteger(count) /\ NumLe(Zero, count)

\* C22 as stated: for every requested word count n the text has exactly n
\* words of the vocabulary.
C22_Original ==
    \A i \in DOMAIN generated :
        IsTextOf(generated[i].text, generated[i].wordCount)

\* C22, amended: for every word count n that is a non-negative integer,
\* generateRandomText(n) returns exactly n words joined by single spaces
\* (the empty string for 0), every word a member of the 26-word vocabulary.
C22_TextOfRequestedLength ==
    /\ Cardinality(Vocabulary) = 26
    /\ \A i \in DOMAIN generated :
          IsCount(generated[i].wordCount) =>
              IsTextOf(generated[i].text, generated[i].wordCount)

\* three words from the draws 0, 0.5 and 0.999: the first, the fourteenth
\* and the last word of the list
C22_Witness ==
    /\ Len(generated) >= 1
    /\ generated[1].wordCount = Num(3)
    /\ generated[1].draws = <<Zero, Dec(5, -1), Dec(999, -3)>>
    /\ generated[1].text = <<"lorem", " ", "ut", " ", "exercitation">>

Generated == content # NoContent /\ content.value # Thrown

\* the conversation has args[1] exchanges, each a query of args[2] words,
\* args[3] chunks of args[4] words and a response of args[5] words
HasStructure(conversation, args) ==
    /\ Num(Len(conversation)) = args[1]
    /\ \A i \in DOMAIN conversation :
          /\ IsTextOf(conversation[i].userQuery, args[2])
          /\ Num(Len(conversation[i].chunks)) = args[3]
          /\ \A j \in DOMAIN conversation[i].chunks :
                IsTextOf(conversation[i].chunks[j], args[4])
          /\ IsTextOf(conversation[i].response, args[5])

\* C23 as stated: the conversation returned has exactly messagesCount
\* exchanges of the structure asked for.
C23_Original ==
    content # NoContent =>
        /\ content.value # Thrown
        /\ HasStructure(content.value.conversation, content.args)

\* C23, amended: for arguments that are non-negative integers, with
\* chunksPerQuery at most 2^32 - 1, generateConversation returns exactly
\* messagesCount exchanges, each with a user query of userQueryWords words,
\* exactly chunksPerQuery chunks of wordsPerChunk words each and a response
\* of responseWords words.
C23_ConversationStructure ==
    (/\ content # NoContent
     /\ \A k \in 1 .. 5 : IsCount(content.args[k])
     /\ WithinArrayLimit(content.args[3]))
        => /\ content.value # Thrown
           /\ HasStructure(content.value.conversation, content.args)

\* one exchange: a query of 2 words, 1 chunk of 2 words, a response of 1
C23_Witness ==
    /\ Generated
    /\ content.args = <<Num(1), Num(2), Num(1), Num(2), Num(1)>>
    /\ content.draws = <<Zero, Dec(999, -3), Zero, Zero, Dec(999, -3)>>
    /\ content.value.conversation =
          <<[userQuery |-> <<"lorem", " ", "exercitation">>,
             chunks |-> << <<"lorem", " ", "lorem">> >>,
             response |-> <<"exercitation">>]>>

\* the index a random value selects: the k with k <= 26 * random < k + 1
DrawnIndex(random) ==
    CHOOSE k \in 0 .. 25 :
        /\ NumLe(Num(k), NumMul(Num(26), random))
        /\ NumLt(NumMul(Num(26), random), Num(k + 1))

\* two sequences of random values select a different word at some place
\* among the `count` places after `offset`
SelectDifferent(draws1, draws2, offset, count) ==
    \E i \in offset + 1 .. offset + count :
        DrawnIndex(draws1[i]) # DrawnIndex(draws2[i])

\* two calls of generateRandomText were made with one positive word count
SameCountTwice ==
    /\ Len(generated) = 2
    /\ generated[1].wordCount = generated[2].wordCount
    /\ NumGt(generated[1].wordCount, Zero)

\* the conversation generated has at least two exchanges, each with a
\* chunk and words in every text
TwoExchanges ==
    /\ Generated
    /\ Len(content.value.conversation) >= 2
    /\ Len(content.value.conversation[1].chunks) >= 1
    /\ \A k \in {2, 4, 5} : NumGt(content.args[k], Zero)

DrawsOfExchange(k) ==
    Drawn(content.draws,
          (k - 1) * (Len(content.draws) \div Len(content.value.conversation)),
          Len(content.draws) \div Len(content.value.conversation))

\* the number of words of a text
WordCount(text) == Len(WordsOf(text))

ChangePending == pending /\ op \in {"edit", "randomizeSettings"}

\* the fragment holds the current settings: saveState was given them, every
\* loadState returns exactly them and the merge on mount restores them
SettingsSaved ==
    /\ ~pending
    /\ saved = settings
    /\ \A state \in loadState(hash) :
          /\ state = settings
          /\ Truthy(state)
          /\ Merge(DefaultSettings, state) = settings

\* C26: after a change of a setting by an edit or by randomizeSettings,
\* saveState is eventually called with the current values of all eight
\* settings, and then loadState returns exactly the current settings and a
\* reload restores them.
C26_ChangeIsSaved == ChangePending ~> SettingsSaved

\* randomized settings, saved in the fragment
C26_Witness ==
    /\ op = "saveState"
    /\ SettingsSaved
    /\ settings.wordsPerChunk = Num(399)
    /\ settings.chunksPerQuery = Num(2)
    /\ settings.dailyUsers = Num(250)

\* the value a setting has after mount: the saved one if present, else the
\* default
AfterMount(state, key) ==
    IF key \in DOMAIN state /\ state[key] # Null /\ state[key] # Undefined
    THEN state[key]
    ELSE DefaultSettings[key]

\* C27: on mount, when loadState returns an object each of the eight
\* settings takes the saved value if the field is present (neither null nor
\* undefined; a saved 0 is kept) and otherwise keeps its default; when
\* loadState returns null all eight settings keep their defaults.
C27_MergeOnMount ==
    [][op' = "onMounted" =>
        /\ IsObject(loaded') =>
              \A key \in DOMAIN DefaultSettings :
                  settings'[key] = AfterMount(loaded', key)
        /\ loaded' = Null => settings' = DefaultSettings]_vars

\* a link with 0 users, null conversations and 300 words per chunk
C27_Witness ==
    /\ op = "onMounted"
    /\ loaded = [dailyUsers |-> Zero, conversationsPerUser |-> Null,
                 wordsPerChunk |-> Num(300)]
    /\ settings = [DefaultSettings EXCEPT !.dailyUsers = Zero,
                                          !.wordsPerChunk = Num(300)]

\* an integer from least to most
IntegerWithin(v, least, most) ==
    IsInteger(v) /\ NumLe(Num(least), v) /\ NumLe(v, Num(most))

\* C28: randomizeSettings leaves dailyUsers and selectedModel unchanged and
\* sets each other setting to an integer within its documented bounds
\* (1-5, 3-10, 100-400, 8-40, 30-120, 1-3), so none of them is 0.
C28_RandomizeWithinBounds ==
    [][op' = "randomizeSettings" =>
        /\ settings'.dailyUsers = settings.dailyUsers
        /\ settings'.selectedModel = settings.selectedModel
        /\ IntegerWithin(settings'.conversationsPerUser, 1, 5)
        /\ IntegerWithin(settings'.messagesPerConversation, 3, 10)
        /\ IntegerWithin(settings'.wordsPerChunk, 100, 400)
        /\ IntegerWithin(settings'.userQueryWords, 8, 40)
        /\ IntegerWithin(settings'.responseWords, 30, 120)
        /\ IntegerWithin(settings'.chunksPerQuery, 1, 3)
        /\ \A key \in DOMAIN settings' \ {"dailyUsers", "selectedModel"} :
              settings'[key] # Zero]_vars

\* the largest values the button gives, with 0 users kept from an edit
C28_Witness ==
    /\ op = "randomizeSettings"
    /\ settings.dailyUsers = Zero
    /\ settings.conversationsPerUser = Num(5)
    /\ settings.messagesPerConversation = Num(9)
    /\ settings.wordsPerChunk = Num(399)
    /\ settings.userQueryWords = Num(39)
    /\ settings.responseWords = Num(119)
    /\ settings.chunksPerQuery = Num(3)

====
